---- MODULE Spec2Model ----
(***************************************************************************)
(* Model of FPA.cpp (find private alleles).  The program reads a header    *)
(* line, derives num_pops, and then processes the input line by line; for  *)
(* each line it enumerates the segregating alleles of the qualifying       *)
(* populations and prints one row per private allele.                      *)
(*                                                                         *)
(* A text line is a record [toks, trail]: its whitespace-delimited tokens  *)
(* and whether whitespace follows the last token.  A double is an exact    *)
(* rational <<numerator, denominator>> in lowest terms.  pow and log10 are *)
(* kept as terms over exact rationals.                                     *)
(***************************************************************************)
EXTENDS Integers, Sequences, FiniteSets, TLC

\* ------------------------------------------------------------------ bounds
MaxHeaderTokens == 27
MaxLines == 1
MaxSeqHeaderTokens == 18
MaxSeqLines == 2

\* ------------------------------------------------------- double arithmetic
RECURSIVE GCD(_, _)
GCD(a, b) == IF b = 0 THEN a ELSE GCD(b, a % b)

Abs(x) == IF x < 0 THEN -x ELSE x

Norm(n, d) ==
  LET g == GCD(Abs(n), d) IN
  IF n = 0 THEN <<0, 1>> ELSE <<n \div g, d \div g>>

Zero == <<0, 1>>
One == <<1, 1>>
RAdd(a, b) == Norm(a[1] * b[2] + b[1] * a[2], a[2] * b[2])
RSub(a, b) == Norm(a[1] * b[2] - b[1] * a[2], a[2] * b[2])
RDivInt(a, k) == Norm(a[1], a[2] * k)
RLess(a, b) == a[1] * b[2] < b[1] * a[2]
RGeq(a, b) == a[1] * b[2] >= b[1] * a[2]
RGreater(a, b) == a[1] * b[2] > b[1] * a[2]

\* pow(base, expo) and log10(x) of <math.h>, kept as terms
Pow(base, expo) == <<"pow", base, expo>>
Log10(x) == <<"log10", x>>

\* Default values of the options
min_Nc == <<20, 1>>
cv == <<5991, 1000>>

\* ------------------------------------------------------ token conversions
\* the decimal tokens of the model and the doubles atof gives for them
DecimalValue ==
  [t \in {"15", "20", "22", "25", "0.9", "0.8", "0.1", "0.2", "1.0",
          "5.0", "5.991", "7.0", "0.01", "3", "4", "5", "10"} |->
     CASE t = "15" -> <<15, 1>>
       [] t = "20" -> <<20, 1>>
       [] t = "22" -> <<22, 1>>
       [] t = "25" -> <<25, 1>>
       [] t = "0.9" -> <<9, 10>>
       [] t = "0.8" -> <<4, 5>>
       [] t = "0.1" -> <<1, 10>>
       [] t = "0.2" -> <<1, 5>>
       [] t = "1.0" -> <<1, 1>>
       [] t = "5.0" -> <<5, 1>>
       [] t = "5.991" -> <<5991, 1000>>
       [] t = "7.0" -> <<7, 1>>
       [] t = "0.01" -> <<1, 100>>
       [] t = "3" -> <<3, 1>>
       [] t = "4" -> <<4, 1>>
       [] t = "5" -> <<5, 1>>
       [] t = "10" -> <<10, 1>>]

\* atof: the value of a leading decimal number, 0.0 when there is none
atof(s) == IF s \in DOMAIN DecimalValue THEN DecimalValue[s] ELSE Zero

\* the tokens operator>>(int&) converts, and their values
IntegerValue ==
  [t \in {"3", "4", "5", "10"} |->
     CASE t = "3" -> 3 [] t = "4" -> 4 [] t = "5" -> 5 [] t = "10" -> 10]

\* ------------------------------------------------------- istringstream
\* a stream over a line: the tokens not yet consumed, whether whitespace
\* follows the last token, and the eofbit and failbit
istringstream(ln) ==
  [toks |-> ln.toks, trail |-> ln.trail, eof |-> FALSE, fail |-> FALSE]

good(ss) == ~ss.eof /\ ~ss.fail

\* ss >> str for a std::string: a stream that is not good, or that holds
\* only whitespace, sets failbit and leaves str as it was; reading the last
\* token of a line without trailing whitespace sets eofbit
ExtractString(ss, old) ==
  IF ~good(ss)
    THEN [ss |-> [ss EXCEPT !.fail = TRUE], val |-> old]
  ELSE IF ss.toks = <<>>
    THEN [ss |-> [ss EXCEPT !.eof = TRUE, !.fail = TRUE], val |-> old]
  ELSE [ss |-> [ss EXCEPT !.toks = Tail(ss.toks),
                          !.eof = (Len(ss.toks) = 1 /\ ~ss.trail)],
        val |-> Head(ss.toks)]

\* ss >> n for an int: as for a string, but a token that is not a number
\* sets failbit and stores 0
ExtractInt(ss, old) ==
  IF ~good(ss)
    THEN [ss |-> [ss EXCEPT !.fail = TRUE], val |-> old]
  ELSE IF ss.toks = <<>>
    THEN [ss |-> [ss EXCEPT !.eof = TRUE, !.fail = TRUE], val |-> old]
  ELSE IF Head(ss.toks) \in DOMAIN IntegerValue
    THEN [ss |-> [ss EXCEPT !.toks = Tail(ss.toks),
                            !.eof = (Len(ss.toks) = 1 /\ ~ss.trail)],
          val |-> IntegerValue[Head(ss.toks)]]
  ELSE [ss |-> [ss EXCEPT !.fail = TRUE], val |-> 0]

\* ----------------------------------------------------------- the header
\* while (true) { ss >> str; pop_info.push_back(str); if (ss.eof()) break; }
RECURSIVE HeaderLoop(_, _, _)
HeaderLoop(ss, str, pop_info) ==
  LET r == ExtractString(ss, str)
      pushed == Append(pop_info, r.val)
  IN IF r.ss.eof THEN pushed ELSE HeaderLoop(r.ss, r.val, pushed)

\* the labels stored in pop_info for a header line
ParseHeader(ln) ==
  LET r1 == ExtractString(istringstream(ln), "")
      r2 == ExtractString(r1.ss, "")
      r3 == ExtractString(r2.ss, "")
  IN HeaderLoop(r3.ss, "", <<>>)

NumPops(ln) == Len(ParseHeader(ln)) \div 9

\* a header line: three leading labels, k population labels
HeaderLine(k, trail) ==
  [toks |-> <<"scaffold", "site", "ref_nuc">> \o [i \in 1..k |-> "col"],
   trail |-> trail]

\* ------------------------------------------------------------ data lines
\* the nine tokens of one population in a data line:
\* allele1 allele2 coverage Nc best_p best_q error_rate best_H poly_llstat
PopRecords ==
  { <<"A", "NA", "3", "25", "0.9", "NA", "0.01", "0.2", "NA">>,
    <<"T", "NA", "4", "22", "0.8", "NA", "0.01", "0.2", "NA">>,
    <<"A", "T", "3", "25", "0.9", "0.1", "0.01", "0.2", "7.0">>,
    <<"A", "T", "3", "20", "0.9", "0.1", "0.01", "0.2", "5.991">>,
    <<"A", "G", "4", "22", "0.8", "0.2", "0.01", "0.2", "7.0">>,
    <<"G", "T", "5", "15", "0.9", "0.1", "0.01", "0.2", "7.0">>,
    <<"NA", "G", "5", "25", "0.9", "0.1", "0.01", "0.2", "7.0">>,
    <<"A", "NA", "NA", "25", "0.9", "NA", "0.01", "0.2", "NA">> }

RECURSIVE Flatten(_)
Flatten(recs) ==
  IF recs = <<>> THEN <<>> ELSE Head(recs) \o Flatten(Tail(recs))

\* the lines getline can return after the header: an empty line, or
\* scaffold, site, ref_nuc and nine tokens for each of np populations
BlankLine == [toks |-> <<>>, trail |-> FALSE]

DataLine(recs) ==
  [toks |-> <<"chr1", "10", "A">> \o Flatten(recs), trail |-> FALSE]

\* the values an int that was never assigned can hold
IndeterminateInt == {0, 99}
\* a double that was never assigned; it is never read before it is assigned
IndeterminateDouble == <<0, 0>>

\* --------------------------------------------------- the population loop
\* the test of allele1 left out
HasEstimates_unchecked(allele1) == TRUE

\* n1[pg] != "NA"
HasEstimates(allele1) == allele1 # "NA"

\* Nc[pg] >= min_Nc
EnoughNc(nc) == RGeq(nc, min_Nc)

\* the gate with >= in place of >
Significant_or_equal(llstat) == RGeq(llstat, cv)

\* pol_llstat[pg] > cv
Significant(llstat) == RGreater(llstat, cv)

\* if ( find(alleles.begin(), alleles.end(), a) == alleles.end() ) push_back
AddAllele(alleles, a) ==
  IF \E i \in 1..Len(alleles) : alleles[i] = a THEN alleles
  ELSE Append(alleles, a)

\* the filter of one population once its tokens are extracted.  pol_llstat[pg]
\* is written and read only here, in this order, so it is a local value
FilterPop(st, pg) ==
  IF HasEstimates(st.n1[pg])
    THEN LET a == [st EXCEPT !.Nc[pg] = atof(st.s_Nc[pg])] IN
      IF EnoughNc(a.Nc[pg])
        THEN LET b == [a EXCEPT !.ne_pops = a.ne_pops + 1,
                                !.sum_Nc = RAdd(a.sum_Nc, a.Nc[pg]),
                                !.alleles = AddAllele(a.alleles, a.n1[pg])] IN
          IF b.n2[pg] # "NA"
            THEN LET pol_llstat == atof(b.s_pol_llstat[pg]) IN
              IF Significant(pol_llstat)
                THEN [b EXCEPT !.alleles = AddAllele(b.alleles, b.n2[pg])]
                ELSE b
            ELSE b
        ELSE a
    ELSE st

\* ss >> n1[pg] >> n2[pg] >> pop_cov[pg] >> s_Nc[pg] >> s_best_p[pg]
\*    >> s_best_q[pg] >> best_error >> s_best_H[pg] >> s_pol_llstat[pg];
\* tot_cov = tot_cov + pop_cov[pg]; then the filter
ReadPop(st, pg) ==
  LET r1 == ExtractString(st.ss, st.n1[pg])
      r2 == ExtractString(r1.ss, st.n2[pg])
      r3 == ExtractInt(r2.ss, st.pop_cov[pg])
      r4 == ExtractString(r3.ss, st.s_Nc[pg])
      r5 == ExtractString(r4.ss, st.s_best_p[pg])
      r6 == ExtractString(r5.ss, st.s_best_q[pg])
      r7 == ExtractString(r6.ss, st.best_error)
      r8 == ExtractString(r7.ss, st.s_best_H[pg])
      r9 == ExtractString(r8.ss, st.s_pol_llstat[pg])
      rd == [st EXCEPT !.ss = r9.ss,
                       !.n1[pg] = r1.val,
                       !.n2[pg] = r2.val,
                       !.pop_cov[pg] = r3.val,
                       !.s_Nc[pg] = r4.val,
                       !.s_best_p[pg] = r5.val,
                       !.s_best_q[pg] = r6.val,
                       !.best_error = r7.val,
                       !.s_best_H[pg] = r8.val,
                       !.s_pol_llstat[pg] = r9.val,
                       !.tot_cov = st.tot_cov + r3.val]
  IN FilterPop(rd, pg)

\* for (pg = 1; pg <= num_pops; pg++)
RECURSIVE PopLoop(_, _, _)
PopLoop(st, pg, np) ==
  IF pg > np THEN st ELSE PopLoop(ReadPop(st, pg), pg + 1, np)

\* ------------------------------------------------------ the allele loop
\* the population is examined for an allele: ML estimates and enough Nc
Examined(st, pg) == HasEstimates(st.n1[pg]) /\ EnoughNc(st.Nc[pg])

\* id_pop_a after the scan of the populations for allele a
id_pop_a(st, a, np) ==
  LET Has(pg) == Examined(st, pg) /\ (st.n1[pg] = a \/ st.n2[pg] = a)
  IN SelectSeq([pg \in 1..np |-> pg], Has)

\* freq_a after the scan: best_p where allele1 matches, else best_q
freq_a(st, a, np) ==
  LET ids == id_pop_a(st, a, np) IN
  [i \in 1..Len(ids) |->
     IF st.n1[ids[i]] = a THEN atof(st.s_best_p[ids[i]])
     ELSE atof(st.s_best_q[ids[i]])]

RECURSIVE SumSeq(_)
SumSeq(fs) == IF fs = <<>> THEN Zero ELSE RAdd(Head(fs), SumSeq(Tail(fs)))

sum_freq_a(st, a, np) == SumSeq(freq_a(st, a, np))

\* the mean over the populations that carry the allele (num_pops_a)
mean_freq_a_div_carriers(st, a, np) ==
  RDivInt(sum_freq_a(st, a, np), Len(id_pop_a(st, a, np)))

\* mean_freq_a = sum_freq_a/ne_pops
mean_freq_a(st, a, np) == RDivInt(sum_freq_a(st, a, np), st.ne_pops)

\* maf_total after the alleles ag..num_alleles, given its value before
RECURSIVE MafLoop(_, _, _, _)
MafLoop(st, ag, maf, np) ==
  IF ag > Len(st.alleles) THEN maf
  ELSE LET m == mean_freq_a(st, st.alleles[ag], np) IN
       MafLoop(st, ag + 1,
               IF ag = 1 THEN m ELSE IF RLess(m, maf) THEN m ELSE maf, np)

\* ne_pops >= 2 && num_pops_a == 1
IsPrivate(st, a, np) == st.ne_pops >= 2 /\ Len(id_pop_a(st, a, np)) = 1

\* the focal population not taken out of the sum
Nc_other_all(sumNc, NcFocal) == sumNc

\* Nc_other = sum_Nc - Nc_focal
Nc_other(sumNc, NcFocal) == RSub(sumNc, NcFocal)

\* ( 1.0-pow(1.0-mean_freq_a,Nc_focal) )*pow(1.0-mean_freq_a,Nc_other)
t_prob_pa(mean, NcFocal, NcOther) ==
  [op |-> "*",
   left |-> [op |-> "1.0-", arg |-> Pow(RSub(One, mean), NcFocal)],
   right |-> Pow(RSub(One, mean), NcOther)]

\* the indices, in alleles, of the private alleles, in the order of the loop
PrivateIndices(st, np) ==
  LET Priv(ag) == IsPrivate(st, st.alleles[ag], np)
  IN SelectSeq([ag \in 1..Len(st.alleles) |-> ag], Priv)

\* for (ag = 0; ag < num_alleles; ag++): the private-allele vectors and
\* maf_total after the loop
AlleleLoop(st, np) ==
  LET idx == PrivateIndices(st, np)
      al(i) == st.alleles[idx[i]]
      focal(i) == id_pop_a(st, al(i), np)[1]
  IN [st EXCEPT
       !.num_alleles = Len(st.alleles),
       !.private_allele = [i \in 1..Len(idx) |-> al(i)],
       !.id_pop_pa = [i \in 1..Len(idx) |-> focal(i)],
       !.focal_paf = [i \in 1..Len(idx) |-> freq_a(st, al(i), np)[1]],
       !.total_paf = [i \in 1..Len(idx) |-> mean_freq_a(st, al(i), np)],
       !.log_prob_pa = [i \in 1..Len(idx) |->
          Log10(t_prob_pa(mean_freq_a(st, al(i), np), st.Nc[focal(i)],
                          Nc_other(st.sum_Nc, st.Nc[focal(i)])))],
       !.num_pa = Len(idx),
       !.maf_total = MafLoop(st, 1, st.maf_total, np)]

\* ------------------------------------------------------------ the output
\* a double printed with %f: its value rounded to six decimals, in millionths
Fixed6(r) == (2 * 1000000 * r[1] + r[2]) \div (2 * r[2])

\* the rows fprintf writes for the line, one for each private allele
Rows(st) ==
  [i \in 1..st.num_pa |->
     [scaffold |-> st.scaffold, site |-> st.site, ref_nuc |-> st.ref_nuc,
      tot_cov |-> st.tot_cov, ne_pops |-> st.ne_pops,
      num_alleles |-> st.num_alleles,
      private_allele |-> st.private_allele[i],
      id_pop |-> st.id_pop_pa[i],
      focal_frequency |-> Fixed6(st.focal_paf[i]),
      total_frequency |-> Fixed6(st.total_paf[i]),
      log_prob_pa |-> st.log_prob_pa[i],
      MAF |-> Fixed6(st.maf_total)]]

\* the rows of a line put before the rows already written
WriteRowsFirst(file, rows) == rows \o file

\* the file after the rows of a line are written
WriteRows(file, rows) == file \o rows

\* one iteration of while ( getline(inputFile, line) ), up to the output
ProcessLine(st, ln, np) ==
  LET s0 == [st EXCEPT !.ss = istringstream(ln),
                       !.alleles = <<>>,
                       !.tot_cov = 0,
                       !.ne_pops = 0,
                       !.sum_Nc = Zero]
      r1 == ExtractString(s0.ss, s0.scaffold)
      r2 == ExtractInt(r1.ss, s0.site)
      r3 == ExtractString(r2.ss, s0.ref_nuc)
      s1 == [s0 EXCEPT !.ss = r3.ss, !.scaffold = r1.val, !.site = r2.val,
                       !.ref_nuc = r3.val]
  IN AlleleLoop(PopLoop(s1, 1, np), np)

\* ------------------------------------------------------------- the state
VARIABLES
  pc,            \* "header", "lines" or "done"
  nlines,        \* the number of lines of the input file after the header
  lineno,        \* the number of lines read after the header
  line,          \* string line: the line last read by getline
  num_pops,
  scaffold, site, ref_nuc,
  n1, n2, pop_cov, s_Nc, s_best_p, s_best_q, best_error, s_best_H,
  s_pol_llstat, Nc,
  tot_cov, ne_pops, sum_Nc, alleles, num_alleles,
  private_allele, id_pop_pa, focal_paf, total_paf, log_prob_pa, num_pa,
  maf_total,
  out            \* the data rows of the output file

vars ==
  <<pc, nlines, lineno, line, num_pops, scaffold, site, ref_nuc,
    n1, n2, pop_cov, s_Nc, s_best_p, s_best_q, best_error, s_best_H,
    s_pol_llstat, Nc, tot_cov, ne_pops, sum_Nc, alleles,
    num_alleles, private_allele, id_pop_pa, focal_paf, total_paf,
    log_prob_pa, num_pa, maf_total, out>>

\* the variables of the line loop, as the record the operators work on
Cur ==
  [ss |-> istringstream(line),
   scaffold |-> scaffold, site |-> site, ref_nuc |-> ref_nuc,
   n1 |-> n1, n2 |-> n2, pop_cov |-> pop_cov, s_Nc |-> s_Nc,
   s_best_p |-> s_best_p, s_best_q |-> s_best_q, best_error |-> best_error,
   s_best_H |-> s_best_H, s_pol_llstat |-> s_pol_llstat, Nc |-> Nc,
   tot_cov |-> tot_cov, ne_pops |-> ne_pops,
   sum_Nc |-> sum_Nc, alleles |-> alleles, num_alleles |-> num_alleles,
   private_allele |-> private_allele, id_pop_pa |-> id_pop_pa,
   focal_paf |-> focal_paf, total_paf |-> total_paf,
   log_prob_pa |-> log_prob_pa, num_pa |-> num_pa, maf_total |-> maf_total]

\* the variables right after their declarations: strings and vectors are
\* empty, ints and doubles hold indeterminate values
Declared(np, cov0, site0) ==
  [ss |-> istringstream(BlankLine),
   scaffold |-> "", site |-> site0, ref_nuc |-> "",
   n1 |-> [pg \in 1..np |-> ""], n2 |-> [pg \in 1..np |-> ""],
   pop_cov |-> cov0, s_Nc |-> [pg \in 1..np |-> ""],
   s_best_p |-> [pg \in 1..np |-> ""], s_best_q |-> [pg \in 1..np |-> ""],
   best_error |-> "", s_best_H |-> [pg \in 1..np |-> ""],
   s_pol_llstat |-> [pg \in 1..np |-> ""],
   Nc |-> [pg \in 1..np |-> IndeterminateDouble],
   tot_cov |-> 0, ne_pops |-> 0, sum_Nc |-> IndeterminateDouble,
   alleles |-> <<>>, num_alleles |-> 0,
   private_allele |-> <<>>, id_pop_pa |-> <<>>, focal_paf |-> <<>>,
   total_paf |-> <<>>, log_prob_pa |-> <<>>, num_pa |-> 0,
   maf_total |-> IndeterminateDouble]

\* the variables take the values of the record
Becomes(st) ==
  /\ scaffold' = st.scaffold /\ site' = st.site /\ ref_nuc' = st.ref_nuc
  /\ n1' = st.n1 /\ n2' = st.n2 /\ pop_cov' = st.pop_cov /\ s_Nc' = st.s_Nc
  /\ s_best_p' = st.s_best_p /\ s_best_q' = st.s_best_q
  /\ best_error' = st.best_error /\ s_best_H' = st.s_best_H
  /\ s_pol_llstat' = st.s_pol_llstat /\ Nc' = st.Nc
  /\ tot_cov' = st.tot_cov
  /\ ne_pops' = st.ne_pops /\ sum_Nc' = st.sum_Nc /\ alleles' = st.alleles
  /\ num_alleles' = st.num_alleles /\ private_allele' = st.private_allele
  /\ id_pop_pa' = st.id_pop_pa /\ focal_paf' = st.focal_paf
  /\ total_paf' = st.total_paf /\ log_prob_pa' = st.log_prob_pa
  /\ num_pa' = st.num_pa /\ maf_total' = st.maf_total

\* the program before the header is parsed: getline has read the header
Start(maxTokens, maxLines) ==
  /\ pc = "header"
  /\ nlines \in 0..maxLines
  /\ lineno = 0
  /\ line \in {HeaderLine(k, t) : k \in 0..maxTokens, t \in BOOLEAN}
  /\ num_pops = 0
  /\ scaffold = "" /\ site = 0 /\ ref_nuc = ""
  /\ n1 = <<>> /\ n2 = <<>> /\ pop_cov = <<>> /\ s_Nc = <<>>
  /\ s_best_p = <<>> /\ s_best_q = <<>> /\ best_error = ""
  /\ s_best_H = <<>> /\ s_pol_llstat = <<>> /\ Nc = <<>>
  /\ tot_cov = 0 /\ ne_pops = 0
  /\ sum_Nc = IndeterminateDouble /\ alleles = <<>> /\ num_alleles = 0
  /\ private_allele = <<>> /\ id_pop_pa = <<>> /\ focal_paf = <<>>
  /\ total_paf = <<>> /\ log_prob_pa = <<>> /\ num_pa = 0
  /\ maf_total = IndeterminateDouble
  /\ out = <<>>

Init == Start(MaxHeaderTokens, MaxLines)

InitSeq == Start(MaxSeqHeaderTokens, MaxSeqLines)

\* the header is parsed, the output file opened and the variables of the
\* line loop declared
ReadHeader ==
  /\ pc = "header"
  /\ pc' = "lines"
  /\ num_pops' = NumPops(line)
  /\ \E cov0 \in [1..NumPops(line) -> IndeterminateInt],
        site0 \in IndeterminateInt :
       Becomes(Declared(NumPops(line), cov0, site0))
  /\ UNCHANGED <<nlines, lineno, line, out>>

\* one iteration of the line loop for the line getline has read
Iterate(ln) ==
  /\ pc = "lines"
  /\ lineno < nlines
  /\ \E st \in {ProcessLine(Cur, ln, num_pops)} :
       /\ Becomes(st)
       /\ out' = WriteRows(out, Rows(st))
  /\ line' = ln
  /\ lineno' = lineno + 1
  /\ UNCHANGED <<pc, nlines, num_pops>>

\* getline reads a line; the line is processed and its rows are written
ReadLine ==
  \/ \E recs \in [1..num_pops -> PopRecords] : Iterate(DataLine(recs))
  \/ Iterate(BlankLine)

\* getline fails at the end of the file: return 0
Finish ==
  /\ pc = "lines"
  /\ lineno = nlines
  /\ pc' = "done"
  /\ UNCHANGED <<nlines, lineno, line, num_pops, scaffold, site, ref_nuc,
                 n1, n2, pop_cov, s_Nc, s_best_p, s_best_q, best_error,
                 s_best_H, s_pol_llstat, Nc, tot_cov, ne_pops,
                 sum_Nc, alleles, num_alleles, private_allele, id_pop_pa,
                 focal_paf, total_paf, log_prob_pa, num_pa, maf_total, out>>

Next == ReadHeader \/ ReadLine \/ Finish

Spec == Init /\ [][Next]_vars

SpecSeq == InitSeq /\ [][Next]_vars

\* ------------------------------------------------- the terms of the claims
\* a data line has been processed
Processed == pc # "header" /\ lineno >= 1

Pops == 1..num_pops

Range(seq) == {seq[i] : i \in 1..Len(seq)}

\* the k-th of the nine tokens of population pg in the line last read
Tok(pg, k) == line.toks[3 + 9 * (pg - 1) + k]

\* the line last read has exactly 3 + 9*num_pops tokens
FullLine == Len(line.toks) = 3 + 9 * num_pops

\* the number a token stands for where an int is read, 0 for other text
IntOrZero(t) == IF t \in DOMAIN IntegerValue THEN IntegerValue[t] ELSE 0

\* a qualifying population: allele1 != "NA" and Nc >= min_Nc
Qualifying(pg) == n1[pg] # "NA" /\ RGeq(atof(s_Nc[pg]), min_Nc)

QualifyingPops == {pg \in Pops : Qualifying(pg)}

\* the population's allele2 passes the significance gate: poly_llstat > cv
Admitted2(pg) == n2[pg] # "NA" /\ RGreater(atof(s_pol_llstat[pg]), cv)

\* the qualifying populations that carry allele a: allele1 is a, or the
\* admitted allele2 is a
Carriers(a) ==
  {pg \in QualifyingPops : n1[pg] = a \/ (Admitted2(pg) /\ n2[pg] = a)}

\* the rows written for the line last read
LastRows == SubSeq(out, Len(out) - num_pa + 1, Len(out))

RECURSIVE SumTo(_, _)
SumTo(f, n) == IF n = 0 THEN Zero ELSE RAdd(SumTo(f, n - 1), f[n])

\* the frequency a population records for allele a
RecordedFreq(pg, a) ==
  IF ~Qualifying(pg) THEN Zero
  ELSE IF n1[pg] = a THEN atof(s_best_p[pg])
  ELSE IF n2[pg] = a THEN atof(s_best_q[pg])
  ELSE Zero

\* sum of the recorded frequencies over the count of qualifying populations
MeanFrequency(a) ==
  RDivInt(SumTo([pg \in Pops |-> RecordedFreq(pg, a)], num_pops),
          Cardinality(QualifyingPops))

MinMeanFrequency ==
  LET means == {MeanFrequency(a) : a \in Range(alleles)}
  IN CHOOSE m \in means : \A x \in means : ~RLess(x, m)

\* the sum of Nc over the qualifying populations other than f
NcOthers(f) ==
  SumTo([pg \in Pops |->
           IF pg \in QualifyingPops \ {f} THEN atof(s_Nc[pg]) ELSE Zero],
        num_pops)

\* the place at which allele a is first met when the populations are scanned
\* 1..num_pops, allele1 before allele2
DiscoveryRank(a) ==
  LET ranks == {2 * pg + (IF n1[pg] = a THEN 0 ELSE 1) : pg \in Carriers(a)}
  IN CHOOSE r \in ranks : \A x \in ranks : r <= x

\* ------------------------------------------------------------------ claims

\* C1: for every allele of the segregating set of a processed line, a row
\* for the allele is written iff exactly one qualifying population carries it
\* (allele1, or admitted allele2) and there are at least two qualifying
\* populations.
C1_RowIffOneCarrier ==
  Processed =>
    \A a \in Range(alleles) :
      (\E i \in 1..Len(LastRows) : LastRows[i].private_allele = a)
        <=> (Cardinality(Carriers(a)) = 1 /\ Cardinality(QualifyingPops) >= 2)

\* C2: a population with allele1 = "NA" or Nc < min_Nc adds its coverage to
\* tot_cov and nothing else: tot_cov is the sum of coverage over all
\* populations, ne_pops and sum_Nc count the qualifying populations only,
\* every segregating allele comes from a qualifying population, and no
\* allele has a non-qualifying population among its carriers or in its
\* frequency sum.
C2_NonQualifyingOnlyCoverage ==
  Processed =>
    /\ tot_cov = SumTo([pg \in Pops |-> <<pop_cov[pg], 1>>], num_pops)[1]
    /\ (FullLine /\ \A pg \in Pops : Tok(pg, 3) \in DOMAIN IntegerValue)
         => \A pg \in Pops : pop_cov[pg] = IntegerValue[Tok(pg, 3)]
    /\ ne_pops = Cardinality(QualifyingPops)
    /\ sum_Nc = SumTo([pg \in Pops |->
                         IF Qualifying(pg) THEN atof(s_Nc[pg]) ELSE Zero],
                      num_pops)
    /\ \A a \in Range(alleles) :
         /\ \E pg \in QualifyingPops : a = n1[pg] \/ a = n2[pg]
         /\ Range(id_pop_a(Cur, a, num_pops)) \subseteq QualifyingPops
         /\ sum_freq_a(Cur, a, num_pops) =
              SumTo([pg \in Pops |-> RecordedFreq(pg, a)], num_pops)

C2_Witness ==
  /\ Processed /\ num_pops = 3 /\ ne_pops = 1 /\ tot_cov = 13
  /\ \E pg \in Pops \ QualifyingPops :
       /\ pop_cov[pg] = 5 /\ s_Nc[pg] = "15"
       /\ n1[pg] = "G" /\ n2[pg] = "T" /\ "G" \notin Range(alleles)
  /\ \E pg \in Pops \ QualifyingPops :
       n1[pg] = "NA" /\ n2[pg] = "G" /\ s_Nc[pg] = "25"

\* C3: the allele2 (not "NA") of a qualifying population is in the
\* segregating set if poly_llstat > cv; if poly_llstat <= cv it is there only
\* when another source put it there; the set holds no allele twice.
C3_SignificanceGate ==
  Processed =>
    /\ \A pg \in QualifyingPops :
         n2[pg] # "NA" =>
           IF RGreater(atof(s_pol_llstat[pg]), cv)
             THEN n2[pg] \in Range(alleles)
             ELSE n2[pg] \in Range(alleles) =>
                    \E other \in QualifyingPops \ {pg} :
                      n2[pg] \in {n1[other]} \cup
                        (IF Admitted2(other) THEN {n2[other]} ELSE {})
                    \/ n2[pg] = n1[pg]
    /\ \A i, j \in 1..Len(alleles) : alleles[i] = alleles[j] => i = j

C3_Witness ==
  /\ Processed
  /\ \E pg, other \in QualifyingPops :
       /\ s_pol_llstat[pg] = "5.991" /\ n2[pg] = "T"
       /\ "T" \notin Range(alleles)
       /\ s_pol_llstat[other] = "7.0" /\ n2[other] = "G"
       /\ "G" \in Range(alleles)

\* C4: at a site with segregating alleles maf_total is the minimum over the
\* alleles of mean_frequency = (sum of recorded frequencies) / ne_pops, and
\* every row written for the site carries it in its MAF field and the mean
\* frequency of its allele in total_frequency.
C4_MafIsMinimumMean ==
  Processed /\ num_alleles >= 1 =>
    /\ maf_total = MinMeanFrequency
    /\ \A i \in 1..Len(LastRows) :
         /\ LastRows[i].MAF = Fixed6(MinMeanFrequency)
         /\ LastRows[i].total_frequency =
              Fixed6(MeanFrequency(LastRows[i].private_allele))

\* two qualifying populations with private alleles at 0.9 and 0.8: total
\* frequencies 0.45 and 0.4, MAF 0.4
C4_Witness ==
  /\ Processed /\ num_pops = 2 /\ ne_pops = 2
  /\ n1 = <<"A", "T">> /\ n2 = <<"NA", "NA">>
  /\ s_Nc = <<"25", "22">> /\ s_best_p = <<"0.9", "0.8">>
  /\ Len(LastRows) = 2
  /\ LastRows[1].private_allele = "A" /\ LastRows[1].id_pop = 1
  /\ LastRows[1].focal_frequency = 900000
  /\ LastRows[1].total_frequency = 450000
  /\ LastRows[2].private_allele = "T" /\ LastRows[2].id_pop = 2
  /\ LastRows[2].focal_frequency = 800000
  /\ LastRows[2].total_frequency = 400000
  /\ LastRows[1].MAF = 400000 /\ LastRows[2].MAF = 400000

\* C5: the rows written for a line are the rows the line gives when it is
\* the first data line, whatever lines were read before it.
C5_RowsDependOnLineOnly ==
  Processed =>
    \E cov0 \in [Pops -> IndeterminateInt], site0 \in IndeterminateInt :
      LastRows = Rows(ProcessLine(Declared(num_pops, cov0, site0), line,
                                  num_pops))

\* C6: after the header is parsed num_pops is floor(k / 9), k the number of
\* tokens of the header after the three leading labels.
C6_NumPopsIsFloor ==
  pc # "header" /\ lineno = 0 => num_pops = (Len(line.toks) - 3) \div 9

\* C7: after a line of exactly 3 + 9*num_pops tokens every field holds the
\* value of its own token, a token that is no number counting as 0 where a
\* number is read.
C7_EachFieldItsOwnToken ==
  Processed /\ FullLine =>
    /\ scaffold = line.toks[1]
    /\ site = IntOrZero(line.toks[2])
    /\ ref_nuc = line.toks[3]
    /\ \A pg \in Pops :
         /\ n1[pg] = Tok(pg, 1) /\ n2[pg] = Tok(pg, 2)
         /\ pop_cov[pg] = IntOrZero(Tok(pg, 3))
         /\ s_Nc[pg] = Tok(pg, 4)
         /\ s_best_p[pg] = Tok(pg, 5) /\ s_best_q[pg] = Tok(pg, 6)
         /\ s_best_H[pg] = Tok(pg, 8) /\ s_pol_llstat[pg] = Tok(pg, 9)
         /\ n1[pg] # "NA" => Nc[pg] = atof(Tok(pg, 4))

\* the rows of the line last read are in the order in which their alleles
\* were first met
NewRowsInDiscoveryOrder ==
  \A i, j \in 1..Len(LastRows) :
    i < j => DiscoveryRank(LastRows[i].private_allele)
               < DiscoveryRank(LastRows[j].private_allele)

\* C8: each line appends its rows to the rows of the earlier lines, and the
\* rows of one site are in the order in which their alleles were first met
\* (populations 1..num_pops, allele1 before allele2).
C8_OutputOrder ==
  [][IF lineno' = lineno + 1
       THEN /\ Len(out') = Len(out) + num_pa'
            /\ SubSeq(out', 1, Len(out)) = out
            /\ NewRowsInDiscoveryOrder'
       ELSE out' = out]_vars

C8_Witness == lineno = 2 /\ num_pa >= 2 /\ Len(out) > num_pa

\* C9: the log_prob_pa of every row is log10((1-(1-p)^Nc_focal) *
\* (1-p)^Nc_other) with p the mean frequency of the row's allele, Nc_focal
\* the Nc of the row's id_pop, which is the one population carrying the
\* allele, and Nc_other the sum of Nc over the other qualifying populations.
C9_LogProb ==
  Processed =>
    \A i \in 1..Len(LastRows) :
      LET a == LastRows[i].private_allele
          f == LastRows[i].id_pop
      IN /\ Carriers(a) = {f}
         /\ LastRows[i].total_frequency = Fixed6(MeanFrequency(a))
         /\ LastRows[i].log_prob_pa =
              Log10(t_prob_pa(MeanFrequency(a), atof(s_Nc[f]), NcOthers(f)))

C9_Witness ==
  /\ Processed /\ num_pops = 3 /\ ne_pops = 2 /\ num_pa >= 1
  /\ \E pg \in Pops \ QualifyingPops : s_Nc[pg] = "15"
  /\ \E i \in 1..Len(LastRows) :
       s_Nc[LastRows[i].id_pop] = "25" /\ NcOthers(LastRows[i].id_pop) = <<22, 1>>

\* C10: a population recorded for an allele that is not its allele1 has the
\* allele as its allele2 and that allele2 passed the gate (poly_llstat > cv);
\* no population is recorded twice for an allele.
C10_RecordedSecondAlleleAdmitted ==
  Processed =>
    \A a \in Range(alleles) :
      LET ids == id_pop_a(Cur, a, num_pops) IN
      /\ \A i \in 1..Len(ids) :
           n1[ids[i]] # a => n2[ids[i]] = a /\ Admitted2(ids[i])
      /\ \A i, j \in 1..Len(ids) : ids[i] = ids[j] => i = j
====
